---- MODULE Spec2Model ----
(***************************************************************************)
(* Model of discord-scatter-plot.py: the zone-label formatter               *)
(* utc_string_from_minutes and the linear pipeline of main (archive check,  *)
(* profile load, message discovery and parsing, bucketing, figure sizing,   *)
(* rendering of out.png and out.svg).                                       *)
(***************************************************************************)
EXTENDS Integers, Sequences, FiniteSets, TLC

(***************************************************************************)
(* IEEE-754 binary64 arithmetic, as far as utc_string_from_minutes uses it. *)
(* A float is a sign and an exact binary magnitude ip + 0.fb, fb being the  *)
(* bits after the binary point.                                             *)
(***************************************************************************)
MantissaBits == 53

Abs(n) == IF n < 0 THEN -n ELSE n

RECURSIVE BitLen(_)
BitLen(n) == IF n = 0 THEN 0 ELSE 1 + BitLen(n \div 2)

\* fb + one unit in the last place, the carry running into the integer part
IncrBits(ip, fb) ==
  LET zeros == {i \in 1..Len(fb) : fb[i] = 0}
  IN IF zeros = {} THEN [ip |-> ip + 1, fb |-> [i \in 1..Len(fb) |-> 0]]
     ELSE LET j == CHOOSE i \in zeros : \A k \in zeros : k <= i
          IN [ip |-> ip,
              fb |-> [i \in 1..Len(fb) |-> IF i < j THEN fb[i]
                                            ELSE IF i = j THEN 1 ELSE 0]]

\* 2^e modulo d, by repeated squaring
RECURSIVE PowMod(_, _)
PowMod(e, d) ==
  IF e = 0 THEN 1 % d
  ELSE IF e % 2 = 0 THEN LET h == PowMod(e \div 2, d) IN (h * h) % d
  ELSE (2 * PowMod(e - 1, d)) % d

\* long division rem/d (0 < rem < d): the quotient bits after the binary point,
\* sig significant bits being taken by the integer part already, up to 53
\* significant bits in all, and the remainder left after the last bit
DivBits(rem, d, sig) ==
  LET first == CHOOSE i \in 1..BitLen(d) :
                 rem * 2^i >= d /\ \A k \in 1..(i - 1) : rem * 2^k < d
      n == IF sig > 0 THEN MantissaBits - sig ELSE first + MantissaBits - 1
  IN [fb |-> [i \in 1..n |-> (2 * ((rem * PowMod(i - 1, d)) % d)) \div d],
      rem |-> (rem * PowMod(n, d)) % d]

LowBit(ip, fb) == IF fb = <<>> THEN ip % 2 ELSE fb[Len(fb)]

\* Python's int / int: the correctly rounded (nearest, ties to even) quotient
TrueDiv(n, d) ==
  LET q == Abs(n) \div d
      r == Abs(n) % d
  IN IF r = 0 THEN [neg |-> n < 0, ip |-> q, fb |-> <<>>]
     ELSE LET t == DivBits(r, d, BitLen(q))
              up == \/ 2 * t.rem > d
                    \/ (2 * t.rem = d /\ LowBit(q, t.fb) = 1)
              m == IF up THEN IncrBits(q, t.fb) ELSE [ip |-> q, fb |-> t.fb]
          IN [neg |-> n < 0, ip |-> m.ip, fb |-> m.fb]

\* math.modf: (fractional part, integer part), both exact, both with x's sign
modf(x) == << [neg |-> x.neg, ip |-> 0, fb |-> x.fb],
              [neg |-> x.neg, ip |-> x.ip, fb |-> <<>>] >>

\* the integer whose binary digits are the given bits (at most 24 of them)
RECURSIVE BitsValue(_)
BitsValue(bits) ==
  IF bits = <<>> THEN 0
  ELSE IF Len(bits) = 1 THEN bits[1]
  ELSE LET h == Len(bits) \div 2
       IN BitsValue(SubSeq(bits, 1, h)) * 2^(Len(bits) - h)
            + BitsValue(SubSeq(bits, h + 1, Len(bits)))

ValueBits(v, n) == [i \in 1..n |-> (v \div 2^(n - i)) % 2]

\* exact value of 0.fb * k + carry units in the last place of fb, worked out
\* in limbs of 24 bits from the right, each limb passing its carry leftward
RECURSIVE MulBits(_, _, _)
MulBits(fb, k, carry) ==
  IF Len(fb) <= 24
  THEN LET v == BitsValue(fb) * k + carry
       IN [ip |-> v \div 2^Len(fb), fb |-> ValueBits(v % 2^Len(fb), Len(fb))]
  ELSE LET cut == Len(fb) - 24
           right == MulBits(SubSeq(fb, cut + 1, Len(fb)), k, carry)
           left == MulBits(SubSeq(fb, 1, cut), k, right.ip)
       IN [ip |-> left.ip, fb |-> left.fb \o right.fb]

\* round an exact magnitude to 53 significant bits, nearest, ties to even
RoundMant(ip, fb) ==
  LET ones == {i \in 1..Len(fb) : fb[i] = 1}
      keep == IF ip > 0 THEN MantissaBits - BitLen(ip)
              ELSE IF ones = {} THEN 0
              ELSE (CHOOSE i \in ones : \A k \in ones : i <= k) + MantissaBits - 1
  IN IF Len(fb) <= keep THEN [ip |-> ip, fb |-> fb]
     ELSE LET kept == SubSeq(fb, 1, keep)
              up == /\ fb[keep + 1] = 1
                    /\ \/ \E i \in (keep + 2)..Len(fb) : fb[i] = 1
                       \/ LowBit(ip, kept) = 1
          IN IF up THEN IncrBits(ip, kept) ELSE [ip |-> ip, fb |-> kept]

\* float * small positive integer
FMul(x, k) ==
  LET e == MulBits(x.fb, k, 0)
      m == RoundMant(x.ip * k + e.ip, e.fb)
  IN [neg |-> x.neg, ip |-> m.ip, fb |-> m.fb]

\* int(abs(numpy.fix(x))): truncation toward zero, then the magnitude
IntAbsFix(x) == x.ip

(***************************************************************************)
(* Formatting                                                               *)
(***************************************************************************)
\* "{:+.0f}" of a float holding a whole number: the sign bit is always shown
FmtSignedWhole(x) == (IF x.neg THEN "-" ELSE "+") \o ToString(x.ip)

\* "{:02d}" of a non-negative integer
Fmt02d(n) == IF n < 10 THEN "0" \o ToString(n) ELSE ToString(n)

utc_string_from_minutes(minutes) ==
  LET parts == modf(TrueDiv(minutes, 60))
      hours == parts[2]
      minutes_frac == IntAbsFix(FMul(parts[1], 60))
  IN IF minutes_frac = 0 THEN "UTC" \o FmtSignedWhole(hours)
     ELSE "UTC" \o FmtSignedWhole(hours) \o ":" \o Fmt02d(minutes_frac)

(***************************************************************************)
(* Calendar arithmetic of datetime: proleptic Gregorian ordinals.           *)
(***************************************************************************)
_is_leap(year) == year % 4 = 0 /\ (year % 100 # 0 \/ year % 400 = 0)

_days_before_year(year) ==
  LET y == year - 1 IN y * 365 + y \div 4 - y \div 100 + y \div 400

_DAYS_IN_MONTH == <<31, 28, 31, 30, 31, 30, 31, 31, 30, 31, 30, 31>>

RECURSIVE _DAYS_BEFORE_MONTH(_)
_DAYS_BEFORE_MONTH(month) ==
  IF month = 1 THEN 0 ELSE _DAYS_BEFORE_MONTH(month - 1) + _DAYS_IN_MONTH[month - 1]

_days_before_month(year, month) ==
  _DAYS_BEFORE_MONTH(month) + (IF month > 2 /\ _is_leap(year) THEN 1 ELSE 0)

_ymd2ord(year, month, day) ==
  _days_before_year(year) + _days_before_month(year, month) + day

_DI400Y == _days_before_year(401)
_DI100Y == _days_before_year(101)
_DI4Y == _days_before_year(5)

_ord2ymd(ordinal) ==
  LET n0 == ordinal - 1
      n400 == n0 \div _DI400Y
      r400 == n0 % _DI400Y
      n100 == r400 \div _DI100Y
      r100 == r400 % _DI100Y
      n4 == r100 \div _DI4Y
      r4 == r100 % _DI4Y
      n1 == r4 \div 365
      n == r4 % 365
      year == n400 * 400 + 1 + n100 * 100 + n4 * 4 + n1
      leapyear == n1 = 3 /\ (n4 # 24 \/ n100 = 3)
      m0 == (n + 50) \div 32
      p0 == _DAYS_BEFORE_MONTH(m0) + (IF m0 > 2 /\ leapyear THEN 1 ELSE 0)
      month == IF p0 > n THEN m0 - 1 ELSE m0
      preceding == IF p0 > n
                   THEN p0 - (_DAYS_IN_MONTH[m0 - 1]
                              + (IF m0 - 1 = 2 /\ leapyear THEN 1 ELSE 0))
                   ELSE p0
  IN IF n1 = 4 \/ n100 = 4 THEN <<year - 1, 12, 31>>
     ELSE <<year, month, n - preceding + 1>>

(***************************************************************************)
(* datetime values.  tzinfo is <<>> for a naive datetime and <<minutes>>    *)
(* for an aware one with that fixed UTC offset.                             *)
(***************************************************************************)
datetime(y, mo, d, h, mi, s) ==
  [year |-> y, month |-> mo, day |-> d, hour |-> h, minute |-> mi,
   second |-> s, microsecond |-> 0, tzinfo |-> <<>>]

\* datetime + timedelta(minutes=delta): the fields of the shifted wall clock
AddMinutes(dt, delta) ==
  LET mins == dt.hour * 60 + dt.minute + delta
      ymd == _ord2ymd(_ymd2ord(dt.year, dt.month, dt.day) + mins \div 1440)
      m == mins % 1440
  IN [dt EXCEPT !.year = ymd[1], !.month = ymd[2], !.day = ymd[3],
                !.hour = m \div 60, !.minute = m % 60]

\* dateutil.parser.parse of a timestamp text given by its printed fields; the
\* zone suffix is <<>> when absent and <<sign, hh, mm>> for "+hh:mm"/"-hh:mm"
parse(text) ==
  [year |-> text.y, month |-> text.mo, day |-> text.d,
   hour |-> text.h, minute |-> text.mi, second |-> text.s,
   microsecond |-> text.us,
   tzinfo |-> IF text.zone = <<>> THEN <<>>
              ELSE <<text.zone[1] * (text.zone[2] * 60 + text.zone[3])>>]

\* pytz.FixedOffset(minutes)
FixedOffset(minutes) == <<minutes>>

\* a variant of astimezone that only relabels the zone (datetime.replace)
astimezone_relabel(dt, tz, local) == [dt EXCEPT !.tzinfo = tz]

\* datetime.astimezone(tz): a naive datetime is taken to be in the system zone
astimezone(dt, tz, local) ==
  LET offset == IF dt.tzinfo = <<>> THEN local ELSE dt.tzinfo[1]
      utc == AddMinutes(dt, -offset)
  IN [AddMinutes(utc, tz[1]) EXCEPT !.tzinfo = tz]

\* a variant of only_time with minute and second exchanged
only_time_swapped(date) == datetime(1970, 1, 1, date.hour, date.second, date.minute)

only_date(date) == datetime(date.year, date.month, date.day, 0, 0, 0)

only_time(date) == datetime(1970, 1, 1, date.hour, date.minute, date.second)

\* ordering of naive datetimes
DtKey(dt) == <<dt.year, dt.month, dt.day, dt.hour, dt.minute, dt.second, dt.microsecond>>

RECURSIVE TupleLess(_, _, _)
TupleLess(a, b, i) ==
  IF i > Len(a) THEN FALSE
  ELSE IF a[i] # b[i] THEN a[i] < b[i] ELSE TupleLess(a, b, i + 1)

DtLess(a, b) == TupleLess(DtKey(a), DtKey(b), 1)

RECURSIVE max(_)
max(seq) ==
  IF Len(seq) = 1 THEN seq[1]
  ELSE LET m == max(SubSeq(seq, 1, Len(seq) - 1))
       IN IF DtLess(m, seq[Len(seq)]) THEN seq[Len(seq)] ELSE m

RECURSIVE min(_)
min(seq) ==
  IF Len(seq) = 1 THEN seq[1]
  ELSE LET m == min(SubSeq(seq, 1, Len(seq) - 1))
       IN IF DtLess(seq[Len(seq)], m) THEN seq[Len(seq)] ELSE m

\* (a - b).days for naive datetimes
TimeOfDay(dt) == <<dt.hour, dt.minute, dt.second, dt.microsecond>>

DeltaDays(a, b) ==
  _ymd2ord(a.year, a.month, a.day) - _ymd2ord(b.year, b.month, b.day)
    - (IF TupleLess(TimeOfDay(a), TimeOfDay(b), 1) THEN 1 ELSE 0)

(***************************************************************************)
(* The run of main.  The archive (profile, messages tree, system zone) is   *)
(* the input; out_png and out_svg are the two image files in the archive    *)
(* root: "absent", "old" (left by an earlier run), "new" (written by this   *)
(* run) or "partial" (a write of this run that failed half way).            *)
(***************************************************************************)
VARIABLES
  pc,                 \* position in main, "exited" once the process ended
  user_json,          \* account/user.json: [exists, decodes, timezoneOffset]
  has_messages_dir,   \* whether <archive>/messages exists
  message_tree,       \* the messages.json files under messages/, in directory order
  local_off,          \* UTC offset of the system zone, used for naive timestamps
  had_outputs,        \* whether out.png/out.svg existed when the run started
  out_png, out_svg,
  opened,             \* files opened for reading so far
  stdout,             \* lines printed so far
  exit_code,          \* -1 while running
  exc,                \* the uncaught exception that ended the run, or "none"
  tz_offset,          \* <<>> until read from the profile
  user_timezone,
  user_timezone_name,
  message_files,
  mf,                 \* index of the next file of the parsing loop
  message_dates,
  dates,
  times,
  figsize,            \* <<>> until the figure exists; <<days, 200, 3>>: days/200 by 3
  title

vars == <<pc, user_json, has_messages_dir, message_tree, local_off, had_outputs,
          out_png, out_svg, opened, stdout, exit_code, exc, tz_offset,
          user_timezone, user_timezone_name, message_files, mf, message_dates,
          dates, times, figsize, title>>

inputs == <<user_json, has_messages_dir, message_tree, local_off, had_outputs>>

archive_dir == "/data/package"
user_json_path == archive_dir \o "/account/user.json"
user_name == "samus"

\* ---- bounds and input sets -------------------------------------------------
MaxFiles == 2
MaxMsgs == 2
MaxOffset == 840

Text(y, mo, d, h, mi, s, us, zone) ==
  [valid |-> TRUE, y |-> y, mo |-> mo, d |-> d, h |-> h, mi |-> mi, s |-> s,
   us |-> us, zone |-> zone]

\* a record whose Timestamp is missing or is not a date
BadText == [valid |-> FALSE, y |-> 0, mo |-> 0, d |-> 0, h |-> 0, mi |-> 0,
            s |-> 0, us |-> 0, zone |-> <<>>]

MainTexts == { Text(2020, 2, 29, 23, 30, 15, 500000, <<1, 0, 0>>),
               Text(2020, 2, 29, 20, 10, 0, 0, <<-1, 5, 0>>),
               Text(2019, 12, 31, 23, 59, 59, 0, <<>>),
               BadText }

MainOffsets == {-60, 330, -65}
MainLocals == {-300}

SeqsUpTo(S, n) == UNION { [1..k -> S] : k \in 0..n }

File(decodes, msgs) == [decodes |-> decodes, msgs |-> msgs]

Files(texts, n) == {File(FALSE, <<>>)} \cup { File(TRUE, m) : m \in SeqsUpTo(texts, n) }

\* every record of every discovered file, in discovery order
RECURSIVE Flat(_)
Flat(tree) ==
  IF tree = <<>> THEN <<>>
  ELSE Flat(SubSeq(tree, 1, Len(tree) - 1)) \o tree[Len(tree)].msgs

\* the messages trees of at most MaxFiles files and MaxMsgs records in all
Trees(texts) ==
  { tree \in SeqsUpTo(Files(texts, MaxMsgs), MaxFiles) : Len(Flat(tree)) <= MaxMsgs }

Profile(exists, decodes, off) ==
  [exists |-> exists, decodes |-> decodes, timezoneOffset |-> off]

\* ---- helpers ---------------------------------------------------------------
\* the progress lines end in "..." here where the program prints an ellipsis sign
print(line) == stdout' = Append(stdout, line)

print2(l1, l2) == stdout' = stdout \o <<l1, l2>>

\* an uncaught exception: traceback on stderr, exit status 1
Raise(e) == /\ exc' = e
            /\ exit_code' = 1
            /\ pc' = "exited"

RECURSIVE FirstBadRecord(_, _)
FirstBadRecord(msgs, i) ==
  IF i > Len(msgs) THEN 0
  ELSE IF ~msgs[i].valid THEN i ELSE FirstBadRecord(msgs, i + 1)

Normalize(msgs, tz, local) ==
  [i \in 1..Len(msgs) |-> astimezone(parse(msgs[i]), tz, local)]

\* ---- initial state ---------------------------------------------------------
Start(prof, dir, tree, local, had) ==
  /\ pc = "start"
  /\ user_json = prof
  /\ has_messages_dir = dir
  /\ message_tree = tree
  /\ local_off = local
  /\ had_outputs = had
  /\ out_png = (IF had THEN "old" ELSE "absent")
  /\ out_svg = (IF had THEN "old" ELSE "absent")
  /\ opened = <<>>
  /\ stdout = <<>>
  /\ exit_code = -1
  /\ exc = "none"
  /\ tz_offset = <<>>
  /\ user_timezone = <<>>
  /\ user_timezone_name = ""
  /\ message_files = <<>>
  /\ mf = 0
  /\ message_dates = <<>>
  /\ dates = <<>>
  /\ times = <<>>
  /\ figsize = <<>>
  /\ title = ""

Init ==
  \E prof \in {Profile(FALSE, FALSE, 0), Profile(TRUE, FALSE, 0)}
               \cup {Profile(TRUE, TRUE, o) : o \in MainOffsets},
     dir \in BOOLEAN, had \in BOOLEAN, local \in MainLocals :
    \E tree \in (IF dir THEN Trees(MainTexts)
                        ELSE {<<>>}) :
      Start(prof, dir, tree, local, had)

\* ---- lines 31-39: the two existence checks ----------------------------------
CheckArchive_and ==
  /\ pc = "start"
  /\ IF ~user_json.exists /\ ~has_messages_dir
     THEN /\ print(archive_dir \o " is not a valid discord data archive")
          /\ exit_code' = 1
          /\ pc' = "exited"
     ELSE /\ pc' = "load_user"
          /\ UNCHANGED <<stdout, exit_code>>
  /\ UNCHANGED <<inputs, out_png, out_svg, opened, exc, tz_offset, user_timezone,
                 user_timezone_name, message_files, mf, message_dates, dates,
                 times, figsize, title>>

CheckArchive ==
  /\ pc = "start"
  /\ IF ~user_json.exists \/ ~has_messages_dir
     THEN /\ print(archive_dir \o " is not a valid discord data archive")
          /\ exit_code' = 1
          /\ pc' = "exited"
     ELSE /\ pc' = "load_user"
          /\ UNCHANGED <<stdout, exit_code>>
  /\ UNCHANGED <<inputs, out_png, out_svg, opened, exc, tz_offset, user_timezone,
                 user_timezone_name, message_files, mf, message_dates, dates,
                 times, figsize, title>>

\* ---- lines 41-50: the profile, its offset, the zone and its label -----------
LoadUser ==
  /\ pc = "load_user"
  /\ opened' = Append(opened, user_json_path)
  /\ IF ~user_json.exists
     THEN /\ Raise("FileNotFoundError")
          /\ UNCHANGED <<stdout, tz_offset, user_timezone, user_timezone_name>>
     ELSE IF ~user_json.decodes
     THEN /\ Raise("JSONDecodeError")
          /\ UNCHANGED <<stdout, tz_offset, user_timezone, user_timezone_name>>
     ELSE /\ print("discord user: " \o user_name)
          /\ tz_offset' = <<user_json.timezoneOffset>>
          /\ user_timezone' = FixedOffset(-user_json.timezoneOffset)
          /\ user_timezone_name' = utc_string_from_minutes(-user_json.timezoneOffset)
          /\ pc' = "find"
          /\ UNCHANGED <<exit_code, exc>>
  /\ UNCHANGED <<inputs, out_png, out_svg, message_files, mf, message_dates,
                 dates, times, figsize, title>>

\* ---- lines 52-55: discovery of the message files ----------------------------
FindMessages ==
  /\ pc = "find"
  /\ message_files' = message_tree
  /\ message_dates' = <<>>
  /\ mf' = 1
  /\ print2("finding messages...", "parsing messages...")
  /\ pc' = "parse"
  /\ UNCHANGED <<inputs, out_png, out_svg, opened, exit_code, exc, tz_offset,
                 user_timezone, user_timezone_name, dates, times, figsize, title>>

\* ---- lines 56-61: one message file: decode it, normalize every timestamp ----
messages_json_path(i) == archive_dir \o "/messages/c" \o ToString(i) \o "/messages.json"

\* a variant that steps over a file it cannot read instead of failing
ParseFile_skip ==
  /\ pc = "parse"
  /\ mf <= Len(message_files)
  /\ opened' = Append(opened, messages_json_path(mf))
  /\ LET file == message_files[mf]
         bad == FirstBadRecord(file.msgs, 1)
     IN IF ~file.decodes \/ bad # 0
        THEN /\ mf' = mf + 1
             /\ UNCHANGED <<message_dates, pc, exit_code, exc>>
        ELSE /\ message_dates' = message_dates
                                   \o Normalize(file.msgs, user_timezone, local_off)
             /\ mf' = mf + 1
             /\ UNCHANGED <<pc, exit_code, exc>>
  /\ UNCHANGED <<inputs, out_png, out_svg, stdout, tz_offset, user_timezone,
                 user_timezone_name, message_files, dates, times, figsize, title>>

ParseFile ==
  /\ pc = "parse"
  /\ mf <= Len(message_files)
  /\ opened' = Append(opened, messages_json_path(mf))
  /\ LET file == message_files[mf]
         bad == FirstBadRecord(file.msgs, 1)
     IN IF ~file.decodes
        THEN /\ Raise("JSONDecodeError")
             /\ UNCHANGED <<message_dates, mf>>
        ELSE IF bad # 0
        THEN /\ message_dates' = message_dates
                   \o Normalize(SubSeq(file.msgs, 1, bad - 1), user_timezone, local_off)
             /\ Raise("ParserError")
             /\ UNCHANGED mf
        ELSE /\ message_dates' = message_dates
                                   \o Normalize(file.msgs, user_timezone, local_off)
             /\ mf' = mf + 1
             /\ UNCHANGED <<pc, exit_code, exc>>
  /\ UNCHANGED <<inputs, out_png, out_svg, stdout, tz_offset, user_timezone,
                 user_timezone_name, message_files, dates, times, figsize, title>>

\* ---- lines 63-65: the loop is over; report the count -------------------------
ReportTotal ==
  /\ pc = "parse"
  /\ mf > Len(message_files)
  /\ print2("total messages: " \o ToString(Len(message_dates)), "processing dates...")
  /\ pc' = "process"
  /\ UNCHANGED <<inputs, out_png, out_svg, opened, exit_code, exc, tz_offset,
                 user_timezone, user_timezone_name, message_files, mf,
                 message_dates, dates, times, figsize, title>>

\* ---- lines 66-74: the two parallel bucket lists ------------------------------
RECURSIVE Distinct(_)
Distinct(seq) ==
  IF seq = <<>> THEN <<>>
  ELSE LET front == Distinct(SubSeq(seq, 1, Len(seq) - 1))
           last == seq[Len(seq)]
       IN IF \E i \in 1..Len(front) : front[i] = last THEN front
          ELSE Append(front, last)

\* a variant that keeps one point per distinct timestamp
ProcessDates_dedup ==
  /\ pc = "process"
  /\ dates' = [i \in 1..Len(Distinct(message_dates)) |->
                 only_date(Distinct(message_dates)[i])]
  /\ times' = [i \in 1..Len(Distinct(message_dates)) |->
                 only_time(Distinct(message_dates)[i])]
  /\ print("creating graph...")
  /\ pc' = "graph"
  /\ UNCHANGED <<inputs, out_png, out_svg, opened, exit_code, exc, tz_offset,
                 user_timezone, user_timezone_name, message_files, mf,
                 message_dates, figsize, title>>

ProcessDates ==
  /\ pc = "process"
  /\ dates' = [i \in 1..Len(message_dates) |-> only_date(message_dates[i])]
  /\ times' = [i \in 1..Len(message_dates) |-> only_time(message_dates[i])]
  /\ print("creating graph...")
  /\ pc' = "graph"
  /\ UNCHANGED <<inputs, out_png, out_svg, opened, exit_code, exc, tz_offset,
                 user_timezone, user_timezone_name, message_files, mf,
                 message_dates, figsize, title>>

\* ---- lines 75-110: the figure, sized by the day span, and its title ----------
\* max()/min() of an empty list raise ValueError.  A figure of width 0 is
\* accepted or rejected by the plotting library depending on its version.
CreateGraph ==
  /\ pc = "graph"
  /\ IF dates = <<>>
     THEN /\ Raise("ValueError")
          /\ UNCHANGED <<figsize, title, stdout>>
     ELSE LET days == DeltaDays(max(dates), min(dates))
          IN \/ /\ figsize' = <<days, 200, 3>>
                /\ title' = "When does " \o user_name \o " post on Discord? ("
                              \o user_timezone_name \o ")"
                /\ print("rendering png...")
                /\ pc' = "png"
                /\ UNCHANGED <<exit_code, exc>>
             \/ /\ days = 0
                /\ Raise("ValueError")
                /\ UNCHANGED <<figsize, title, stdout>>
  /\ UNCHANGED <<inputs, out_png, out_svg, opened, tz_offset, user_timezone,
                 user_timezone_name, message_files, mf, message_dates, dates, times>>

\* ---- lines 111-112: savefig(out.png); it may fail (disk, permissions, size) --
RenderPng ==
  /\ pc = "png"
  /\ \/ /\ out_png' = "new"
        /\ print("rendering svg...")
        /\ pc' = "svg"
        /\ UNCHANGED <<exit_code, exc>>
     \/ /\ out_png' \in {out_png, "partial"}
        /\ Raise("OSError")
        /\ UNCHANGED stdout
  /\ UNCHANGED <<inputs, out_svg, opened, tz_offset, user_timezone,
                 user_timezone_name, message_files, mf, message_dates, dates,
                 times, figsize, title>>

\* ---- lines 113-115: savefig(out.svg), then the last line and a normal exit ---
\* a variant that saves to the PNG path a second time
RenderSvg_png_again ==
  /\ pc = "svg"
  /\ \/ /\ out_png' = "new"
        /\ print("done!")
        /\ exit_code' = 0
        /\ pc' = "exited"
        /\ UNCHANGED exc
     \/ /\ out_png' \in {out_png, "partial"}
        /\ Raise("OSError")
        /\ UNCHANGED stdout
  /\ UNCHANGED <<inputs, out_svg, opened, tz_offset, user_timezone,
                 user_timezone_name, message_files, mf, message_dates, dates,
                 times, figsize, title>>

RenderSvg ==
  /\ pc = "svg"
  /\ \/ /\ out_svg' = "new"
        /\ print("done!")
        /\ exit_code' = 0
        /\ pc' = "exited"
        /\ UNCHANGED exc
     \/ /\ out_svg' \in {out_svg, "partial"}
        /\ Raise("OSError")
        /\ UNCHANGED stdout
  /\ UNCHANGED <<inputs, out_png, opened, tz_offset, user_timezone,
                 user_timezone_name, message_files, mf, message_dates, dates,
                 times, figsize, title>>

Next ==
  \/ CheckArchive
  \/ LoadUser
  \/ FindMessages
  \/ ParseFile
  \/ ReportTotal
  \/ ProcessDates
  \/ CreateGraph
  \/ RenderPng
  \/ RenderSvg

Spec == Init /\ [][Next]_vars

(***************************************************************************)
(* The label for every profile offset: the run up to the end of the profile *)
(* load, over archives whose stored offset ranges over -MaxOffset..MaxOffset.*)
(***************************************************************************)
InitLabel ==
  \E o \in -MaxOffset..MaxOffset :
    Start(Profile(TRUE, TRUE, o), TRUE, <<>>, 0, FALSE)

NextLabel ==
  \/ CheckArchive
  \/ LoadUser

SpecLabel == InitLabel /\ [][NextLabel]_vars

(***************************************************************************)
(* One message: archives with a single file holding a single record, the    *)
(* timestamp text ranging over dates around month, year and leap-day        *)
(* boundaries, times around midnight, and zone suffixes.                    *)
(***************************************************************************)
GridDays == { <<2019, 12, 31>>, <<2020, 1, 1>>, <<2020, 2, 28>>, <<2020, 2, 29>>,
              <<2020, 3, 1>>, <<2021, 2, 28>>, <<2100, 2, 28>> }
GridTimes == { <<0, 0, 0>>, <<0, 29, 59>>, <<12, 0, 1>>, <<23, 30, 15>>, <<23, 59, 59>> }
GridMicros == {0, 999999}
GridZones == { <<>>, <<1, 0, 0>>, <<-1, 5, 30>>, <<1, 14, 0>>, <<-1, 12, 0>> }
GridOffsets == {-840, -330, -60, 0, 65, 720}
GridLocals == {0, -300}

GridTexts ==
  { Text(dd[1], dd[2], dd[3], tt[1], tt[2], tt[3], us, z) :
      dd \in GridDays, tt \in GridTimes, us \in GridMicros, z \in GridZones }

InitMsg ==
  \E o \in GridOffsets, text \in GridTexts, local \in GridLocals :
    Start(Profile(TRUE, TRUE, o), TRUE, <<File(TRUE, <<text>>)>>, local, FALSE)

SpecMsg == InitMsg /\ [][Next]_vars

(***************************************************************************)
(* Vocabulary of the properties                                             *)
(***************************************************************************)
ValidArchive == user_json.exists /\ has_messages_dir

Printed(line) == \E i \in 1..Len(stdout) : stdout[i] = line

ImagesUntouched ==
  /\ out_png = (IF had_outputs THEN "old" ELSE "absent")
  /\ out_svg = (IF had_outputs THEN "old" ELSE "absent")

BadFile(file) == ~file.decodes \/ \E i \in 1..Len(file.msgs) : ~file.msgs[i].valid

BadFiles == {i \in 1..Len(message_tree) : BadFile(message_tree[i])}

\* the bucketing pass has run
Bucketed == Printed("creating graph...")

\* the label the documented format gives the offset a (minutes east of UTC)
DocumentedLabel(a) ==
  "UTC" \o (IF a < 0 THEN "-" ELSE "+") \o ToString(Abs(a) \div 60)
        \o (IF Abs(a) % 60 = 0 THEN ""
            ELSE ":" \o (IF Abs(a) % 60 < 10 THEN "0" ELSE "") \o ToString(Abs(a) % 60))

\* the instant of an aware datetime: <<UTC day, UTC minute of day, s, us>>
Instant(dt) ==
  LET m == dt.hour * 60 + dt.minute - dt.tzinfo[1]
  IN <<_ymd2ord(dt.year, dt.month, dt.day) + m \div 1440, m % 1440,
       dt.second, dt.microsecond>>

\* the instant a timestamp text with a zone suffix denotes
TextInstant(text) ==
  LET east == text.zone[1] * (text.zone[2] * 60 + text.zone[3])
      m == text.h * 60 + text.mi - east
  IN <<_ymd2ord(text.y, text.mo, text.d) + m \div 1440, m % 1440, text.s, text.us>>

(***************************************************************************)
(* C1: for an archive lacking account/user.json or the messages directory,  *)
(* the run opens no file, leaves out.png and out.svg as they were, never    *)
(* gets past the check, and ends with exit status 1 having printed exactly  *)
(* the line naming the archive path as not valid.                           *)
(***************************************************************************)
C1_InvalidArchiveRejected ==
  ~ValidArchive =>
    /\ pc \in {"start", "exited"}
    /\ opened = <<>>
    /\ ImagesUntouched
    /\ pc = "exited" =>
         /\ exit_code = 1
         /\ exc = "none"
         /\ stdout = <<archive_dir \o " is not a valid discord data archive">>

C1_Witness ==
  /\ pc = "exited"
  /\ ~user_json.exists
  /\ has_messages_dir
  /\ message_tree # <<>>
  /\ had_outputs
  /\ exit_code = 1

(***************************************************************************)
(* C2: a run over a valid archive with zero messages ends with a reported   *)
(* error, not with the exception of max()/min() over the empty date list,   *)
(* and writes neither image.                                                *)
(***************************************************************************)
C2_EmptyArchiveGuarded ==
  ( /\ ValidArchive
    /\ user_json.decodes
    /\ BadFiles = {}
    /\ Flat(message_tree) = <<>>
    /\ pc = "exited" )
  => /\ exc = "none"
     /\ exit_code # 0
     /\ ImagesUntouched

(***************************************************************************)
(* C3: for every stored offset m the label computed by the profile load is  *)
(* "UTC", the sign of a = -m, |a| div 60 and, iff |a| mod 60 is not 0, ":"  *)
(* and |a| mod 60 in two digits.                                            *)
(***************************************************************************)
C3_LabelFormat ==
  tz_offset # <<>> => user_timezone_name = DocumentedLabel(-tz_offset[1])

(***************************************************************************)
(* C4: every normalized timestamp is at the fixed offset -m and the label   *)
(* in the title is the label of that same offset -m.                        *)
(***************************************************************************)
C4_LabelDenotesPlottedOffset ==
  title # "" =>
    /\ \A i \in 1..Len(message_dates) :
         message_dates[i].tzinfo = <<-tz_offset[1]>>
    /\ title = "When does " \o user_name \o " post on Discord? ("
                 \o DocumentedLabel(-tz_offset[1]) \o ")"

(***************************************************************************)
(* C5: after bucketing, the Date Bucket of every message holds the          *)
(* normalized timestamp's year/month/day at 00:00:00, the Time Bucket its   *)
(* hour/minute/second on 1970-01-01, and date-of-the-former with            *)
(* time-of-the-latter is the normalized timestamp cut to the second.        *)
(***************************************************************************)
C5_BucketsRecombine ==
  Bucketed =>
    /\ Len(dates) = Len(message_dates)
    /\ Len(times) = Len(message_dates)
    /\ \A i \in 1..Len(message_dates) :
         LET n == message_dates[i]
             d == dates[i]
             t == times[i]
         IN /\ n.tzinfo = <<-tz_offset[1]>>
            /\ <<d.year, d.month, d.day>> = <<n.year, n.month, n.day>>
            /\ <<d.hour, d.minute, d.second, d.microsecond>> = <<0, 0, 0, 0>>
            /\ <<t.year, t.month, t.day>> = <<1970, 1, 1>>
            /\ <<t.hour, t.minute, t.second>> = <<n.hour, n.minute, n.second>>
            /\ t.microsecond = 0
            /\ [n EXCEPT !.microsecond = 0, !.tzinfo = <<>>]
                 = [d EXCEPT !.hour = t.hour, !.minute = t.minute,
                             !.second = t.second]

C5_Witness ==
  /\ pc = "graph"
  /\ Len(dates) = 1
  /\ message_dates[1].microsecond # 0
  /\ message_dates[1].minute # message_dates[1].second
  /\ message_dates[1].day # Flat(message_tree)[1].d
  /\ dates[1].day = message_dates[1].day

(***************************************************************************)
(* C6: every timestamp text with a zone suffix is normalized to a datetime  *)
(* at the profile's offset that denotes the same instant as the text.       *)
(***************************************************************************)
C6_InstantPreserved ==
  /\ Len(message_dates) <= Len(Flat(message_tree))
  /\ \A i \in 1..Len(message_dates) :
       LET text == Flat(message_tree)[i]
       IN text.zone # <<>> =>
            /\ message_dates[i].tzinfo = <<-tz_offset[1]>>
            /\ Instant(message_dates[i]) = TextInstant(text)

C6_Witness ==
  /\ pc = "process"
  /\ Len(message_dates) = 1
  /\ Flat(message_tree)[1].zone # <<>>
  /\ message_dates[1].day # Flat(message_tree)[1].d
  /\ message_dates[1].year # Flat(message_tree)[1].y
  /\ message_dates[1].minute # Flat(message_tree)[1].mi

(***************************************************************************)
(* C7: after bucketing, dates and times have one entry per record of all    *)
(* discovered files, that number is the reported total, entry i of both     *)
(* comes from record i, and equal timestamps keep their own entries.        *)
(***************************************************************************)
C7_OneEntryPerMessage ==
  Bucketed =>
    LET all == Flat(message_tree)
        norm == Normalize(all, user_timezone, local_off)
    IN /\ Len(dates) = Len(all)
       /\ Len(times) = Len(all)
       /\ Printed("total messages: " \o ToString(Len(all)))
       /\ \A i \in 1..Len(all) :
            /\ dates[i] = only_date(norm[i])
            /\ times[i] = only_time(norm[i])

C7_Witness ==
  /\ Bucketed
  /\ Len(message_tree) = 2
  /\ Len(dates) = 2
  /\ message_tree[1].msgs = message_tree[2].msgs
  /\ dates[1] = dates[2]
  /\ times[1] = times[2]

(***************************************************************************)
(* C8: when some discovered file does not decode or holds a record without  *)
(* a parseable timestamp, the run ends in failure at the first such file:   *)
(* the bucketing, the figure and both image writes are never reached.       *)
(***************************************************************************)
C8_BadFileIsFatal ==
  (ValidArchive /\ user_json.decodes /\ BadFiles # {}) =>
    /\ pc \in {"start", "load_user", "find", "parse", "exited"}
    /\ ~Printed("processing dates...")
    /\ ImagesUntouched
    /\ exit_code # 0
    /\ mf <= (CHOOSE i \in BadFiles : \A k \in BadFiles : i <= k)
    /\ pc = "exited" =>
         /\ exit_code = 1
         /\ exc \in {"JSONDecodeError", "ParserError"}
         /\ mf = (CHOOSE i \in BadFiles : \A k \in BadFiles : i <= k)

C8_Witness ==
  /\ pc = "exited"
  /\ exc = "JSONDecodeError"
  /\ mf = 2
  /\ Len(message_dates) > 0
  /\ had_outputs
  /\ out_png = "old"

(***************************************************************************)
(* C9: a run that ends with status 0 has printed "done!" last and has       *)
(* written both out.png and out.svg; "done!" is printed by no other run;    *)
(* and out.svg is only ever written once out.png has been written.          *)
(***************************************************************************)
C9_SuccessState ==
  /\ exit_code = 0 =>
       /\ out_png = "new"
       /\ out_svg = "new"
       /\ stdout[Len(stdout)] = "done!"
  /\ Printed("done!") => exit_code = 0

C9_SvgAfterPng == out_svg' # out_svg => (out_png = "new" /\ out_png' = "new")

C9_BothImagesInOrder == []C9_SuccessState /\ [][C9_SvgAfterPng]_vars

C9_Witness ==
  /\ exit_code = 0
  /\ had_outputs
  /\ out_png = "new"
  /\ out_svg = "new"

(***************************************************************************)
(* C10: whenever the figure exists it is <day span>/200 wide and 3 high,    *)
(* and the width is strictly positive.                                      *)
(***************************************************************************)
C10_WidthPositive ==
  figsize # <<>> =>
    /\ figsize = <<DeltaDays(max(dates), min(dates)), 200, 3>>
    /\ figsize[1] > 0

====
